---- MODULE Spec2Model ----
(***************************************************************************)
(* zdutil.cache: the disk cache decorator (disk_cache), its key derivation *)
(* (_hash_input, _cache_path), its codec (write_to_disk, read_from_disk)   *)
(* and the accessor _load_most_recent_from_cache, as a state machine over  *)
(* the cache directory shared by the processes that import the module.     *)
(***************************************************************************)
EXTENDS Integers, Sequences, FiniteSets, TLC

(***************************************************************************)
(* Python values.  A value is a record tagged by its type:                 *)
(*   none | bool | int | str | list | tuple | dict (str keys, in insertion *)
(*   order, as a sequence of [k, v]) | ikdict (a dict with a non-str key)  *)
(*   | df (a pandas DataFrame, with h = its hash_pandas_object sum)        *)
(*   | obj (any other object: a set, a connection, ...).                   *)
(***************************************************************************)
PyNone == [t |-> "none"]
PyBool(b) == [t |-> "bool", v |-> b]
PyInt(n) == [t |-> "int", v |-> n]
PyStr(s) == [t |-> "str", v |-> s]
PyList(s) == [t |-> "list", v |-> s]
PyTuple(s) == [t |-> "tuple", v |-> s]
PyDict(s) == [t |-> "dict", v |-> s]
PyIntKeyDict(s) == [t |-> "ikdict", v |-> s]
PyDataFrame(h) == [t |-> "df", h |-> h]
PyObject(i) == [t |-> "obj", id |-> i]

\* conjunction of a sequence of booleans (Python's all())
RECURSIVE All(_)
All(bs) == IF bs = <<>> THEN TRUE ELSE Head(bs) /\ All(Tail(bs))

\* safe_json(data): can data take part in the key
RECURSIVE safe_json(_)
safe_json(data) ==
    CASE data.t = "none" -> TRUE
      [] data.t \in {"bool", "int", "str"} -> TRUE
      [] data.t \in {"tuple", "list"} ->
            All([i \in 1..Len(data.v) |-> safe_json(data.v[i])])
      [] data.t = "dict" ->
            All([i \in 1..Len(data.v) |-> safe_json(data.v[i].v)])
      [] data.t = "ikdict" -> FALSE
      [] data.t = "df" -> TRUE
      [] OTHER -> FALSE

\* serialize_df(o): the default= hook of json.dumps, a DataFrame becomes
\* the integer sum of its row hashes
serialize_df(o) == IF o.t = "df" THEN PyInt(o.h) ELSE o

Digit(d) == CASE d = 0 -> "0" [] d = 1 -> "1" [] d = 2 -> "2" [] d = 3 -> "3"
              [] d = 4 -> "4" [] d = 5 -> "5" [] d = 6 -> "6" [] d = 7 -> "7"
              [] d = 8 -> "8" [] d = 9 -> "9"

\* the decimal text of an integer, as json.dumps writes it
RECURSIVE IntText(_)
IntText(n) ==
    IF n < 0 THEN "-" \o IntText(0 - n)
    ELSE IF n < 10 THEN Digit(n)
    ELSE IntText(n \div 10) \o Digit(n % 10)

\* ", ".join(parts)
RECURSIVE JoinComma(_)
JoinComma(parts) ==
    IF parts = <<>> THEN ""
    ELSE IF Len(parts) = 1 THEN parts[1]
    ELSE parts[1] \o ", " \o JoinComma(Tail(parts))

\* json.dumps(o, default=serialize_df): lists and tuples both become JSON
\* arrays, a dict is written in its iteration (insertion) order since
\* sort_keys is not given, an object json cannot write goes through default=
\* and a TypeError ("!TypeError") if default= returns it unchanged.
RECURSIVE json_dumps(_)
json_dumps(o) ==
    CASE o.t = "none" -> "null"
      [] o.t = "bool" -> IF o.v THEN "true" ELSE "false"
      [] o.t = "int" -> IntText(o.v)
      [] o.t = "str" -> "\"" \o o.v \o "\""
      [] o.t \in {"list", "tuple"} ->
            "[" \o JoinComma([i \in 1..Len(o.v) |-> json_dumps(o.v[i])]) \o "]"
      [] o.t = "dict" ->
            "{" \o JoinComma([i \in 1..Len(o.v) |->
                    "\"" \o o.v[i].k \o "\": " \o json_dumps(o.v[i].v)]) \o "}"
      [] o.t = "df" -> json_dumps(serialize_df(o))
      [] OTHER -> "!TypeError"

\* hashlib.sha256(s.encode()).hexdigest(): the digest is taken to be
\* collision free on the texts of the model, so it is the text under a tag
sha256_hexdigest(s) == "sha256(" \o s \o ")"

\* [arg for arg in args if safe_json(arg)]
RECURSIVE FilterArgs(_)
FilterArgs(args) ==
    IF args = <<>> THEN <<>>
    ELSE IF safe_json(Head(args)) THEN <<Head(args)>> \o FilterArgs(Tail(args))
    ELSE FilterArgs(Tail(args))

\* {k: v for k, v in kwargs.items() if safe_json(v)}
RECURSIVE FilterKwargs(_)
FilterKwargs(kwargs) ==
    IF kwargs = <<>> THEN <<>>
    ELSE IF safe_json(Head(kwargs).v)
         THEN <<Head(kwargs)>> \o FilterKwargs(Tail(kwargs))
    ELSE FilterKwargs(Tail(kwargs))

\* _hash_input: args a sequence of values, kwargs the
\* keyword mapping as a sequence of [k, v] in the order the call gave them
_hash_inputUnfiltered(args, kwargs) ==
    sha256_hexdigest(json_dumps(PyDict(<<[k |-> "kwargs", v |-> PyDict(kwargs)],
                                         [k |-> "args", v |-> PyList(args)]>>)))
_hash_inputKwargsOnly(args, kwargs) ==
    sha256_hexdigest(json_dumps(PyDict(<<[k |-> "kwargs",
                                          v |-> PyDict(FilterKwargs(kwargs))]>>)))
_hash_input(args, kwargs) ==
    LET kw == FilterKwargs(kwargs)
        ar == FilterArgs(args)
        key == PyDict(<<[k |-> "kwargs", v |-> PyDict(kw)],
                        [k |-> "args", v |-> PyList(ar)]>>)
        serialized == json_dumps(key)
    IN  sha256_hexdigest(serialized)

(***************************************************************************)
(* The cache directory and the processes that share it.                    *)
(***************************************************************************)
\* bounds: the clock stops at MaxTime, the wrapped functions are invoked at
\* most MaxGen times in all
MaxTime == 1
MaxGen == 2

Procs == {1, 2}

\* CACHE_PATH = '/'.join((HOME, '.zdata')), one token of a path
CACHE_PATH == "$HOME/.zdata"
VALID_EXT == {"parquet", "pkl", "feather"}
\* the extensions the callers of the model ask for
Exts == {"parquet", "pkl", "txt"}

\* a path is a sequence of tokens: CACHE_PATH, "/", the characters of the
\* function's name, "-", the digest, ".", the extension
NoPath == <<>>

\* the functions a process may wrap: func.__name__ as characters
FuncIds == {1}
FuncName(f) == <<"f", "o", "o">>

\* two functions defined in different modules under one name: both have
\* the __name__ FuncName gives
Namesakes == {1, 2}

\* a duration string "<n><unit>" as pandas reads it
Duration(n, unit) == [n |-> n, unit |-> unit]
DefaultMaxAge == Duration(3, "D")
MaxAges == { Duration(1, "S") }
\* more of the max_age a caller may give: no time at all, a second, a minute
MaxAgesWide == { Duration(0, "S"), Duration(1, "S"), Duration(1, "T") }

\* pd.to_timedelta(max_age).total_seconds()
total_seconds(d) ==
    d.n * (CASE d.unit = "S" -> 1
             [] d.unit = "T" -> 60
             [] d.unit = "H" -> 3600
             [] d.unit = "D" -> 86400)

\* the calls a process makes of its memoized function
CallInputs ==
    << [args |-> <<PyInt(1), PyObject(1)>>, kwargs |-> <<>>],
       [args |-> <<PyInt(2)>>, kwargs |-> <<>>] >>

\* what a wrapped function returns: the value of the gen-th invocation,
\* computed by function func, a DataFrame ("df"), another picklable object
\* ("obj") or an object pickle cannot write, such as a generator
\* ("unpicklable"); the functions of the model return the first and the last
ResultKinds == {"df", "unpicklable"}
NoValue == [gen |-> 0, kind |-> "none", func |-> 0]
Result(g, k, f) == [gen |-> g, kind |-> k, func |-> f]

\* _cache_path
_cache_path(func, args, kwargs) ==
    <<CACHE_PATH, "/">> \o FuncName(func) \o <<"-", _hash_input(args, kwargs)>>

\* path.split('.')[-1]
RECURSIVE LastSegment(_)
LastSegment(path) ==
    IF \E i \in 1..Len(path) : path[i] = "."
    THEN LastSegment(Tail(path))
    ELSE path

\* the key derivation called on its own: the call and the key it got
VARIABLES kpc, kargs, kkwargs, kkey
keyVars == <<kpc, kargs, kkwargs, kkey>>

VARIABLES
    proc,       \* per process: its wrapper and where it is in a call
    dirExists,  \* os.path.exists(CACHE_PATH)
    files,      \* the files of the cache directory, by path
    now,        \* time.time(), in seconds
    gen,        \* how many times wrapped functions have been invoked
    returned    \* per path, what the call that built the entry returned

cacheVars == <<proc, dirExists, files, now, gen, returned>>

Unwrapped ==
    [ w |-> "unwrapped",
      \* form: how disk_cache was called, while wrapping or once it raised
      form |-> "none", func |-> 0, ext |-> "",
      max_age |-> DefaultMaxAge,
      pc |-> "idle", op |-> "", input |-> 0, contains |-> NoPath,
      path |-> NoPath, result |-> NoValue,
      exc |-> "", depth |-> 0,
      \* fd: the file the handle opened by write_to_disk is on (0: none)
      fd |-> 0,
      \* what the call has done so far (history, read by the properties only)
      \*   seen: what line 119 found at the outermost frame, built: what
      \*   the call that built the entry found there had returned,
      \*   age0: the age line 125 measured there (-1: none measured),
      \*   invoked: calls of the wrapped function, ferr: it raised,
      \*   wrote: write_to_disk was called, removed: os.remove was done,
      \*   t0, g0: the time and the number of invocations at the call
      seen |-> "", built |-> NoValue, age0 |-> -1, invoked |-> 0,
      ferr |-> FALSE,
      wrote |-> FALSE, removed |-> FALSE, t0 |-> 0, g0 |-> 0 ]

CacheInit ==
    /\ proc = [p \in Procs |-> Unwrapped]
    /\ dirExists = FALSE
    /\ files = <<>>
    /\ now = 0
    /\ gen = 0
    /\ returned = <<>>

Exists(path) == path \in DOMAIN files

\* a file as the filesystem holds it: whether its writer got to the end of
\* it, the artifact written, the times of its last write, and which file
\* it is (a path removed and created again holds another file)
File(complete, payload, t, ino) ==
    [complete |-> complete, payload |-> payload, mtime |-> t, ctime |-> t,
     ino |-> ino]

\* an artifact: an object in the format of an extension
NoArtifact == [fmt |-> <<>>, obj |-> NoValue]

Put(f, k, v) == [x \in DOMAIN f \cup {k} |-> IF x = k THEN v ELSE f[x]]
Drop(f, k) == [x \in DOMAIN f \ {k} |-> f[x]]

Raised(r, e) == [r EXCEPT !.pc = "raised", !.exc = e]

\* the process between two calls: its wrapper, and nothing of a call
Idle(r) ==
    [Unwrapped EXCEPT !.w = r.w, !.form = r.form, !.func = r.func,
                      !.ext = r.ext, !.max_age = r.max_age]

(***************************************************************************)
(* disk_cache, with func=None, max_age='3D', ext='parquet' by default     *)
(***************************************************************************)
\* the check of ext at wrap time
ExtAcceptedAny(ext) == TRUE
ExtAccepted(ext) == ext \in VALID_EXT

\* disk_cache(func, max_age=..., ext=...): the bare form
DiskCacheBare(p) ==
    /\ proc[p].w = "unwrapped"
    /\ \E f \in FuncIds, ext \in Exts, max_age \in MaxAges :
          proc' = [proc EXCEPT ![p] =
                    IF ~ExtAccepted(ext)
                    THEN [@ EXCEPT !.w = "raised", !.form = "bare", !.ext = ext]
                    ELSE [@ EXCEPT !.w = "wrapped", !.func = f,
                                   !.ext = ext, !.max_age = max_age]]
    /\ UNCHANGED <<dirExists, files, now, gen, returned, keyVars>>

\* disk_cache(max_age=..., ext=...): func is None, a partial is returned
DiskCacheParam(p) ==
    /\ proc[p].w = "unwrapped"
    /\ \E ext \in Exts, max_age \in MaxAges :
          proc' = [proc EXCEPT ![p] =
                    IF ~ExtAccepted(ext)
                    THEN [@ EXCEPT !.w = "raised", !.form = "param", !.ext = ext]
                    ELSE [@ EXCEPT !.w = "partial", !.form = "param",
                                   !.ext = ext, !.max_age = max_age]]
    /\ UNCHANGED <<dirExists, files, now, gen, returned, keyVars>>

\* the partial applied to the function: disk_cache(func, max_age, ext) again
DiskCacheApply(p) ==
    /\ proc[p].w = "partial"
    /\ \E f \in FuncIds :
          proc' = [proc EXCEPT ![p] =
                    IF ~ExtAccepted(proc[p].ext)
                    THEN [@ EXCEPT !.w = "raised"]
                    ELSE [@ EXCEPT !.w = "wrapped", !.form = "none", !.func = f]]
    /\ UNCHANGED <<dirExists, files, now, gen, returned, keyVars>>

\* disk_cache(func, max_age=..., ext=...) over the wider inputs: either of
\* two functions of one name, and a max_age of any length
DiskCacheWide(p) ==
    /\ proc[p].w = "unwrapped"
    /\ \E f \in Namesakes, ext \in Exts, max_age \in MaxAgesWide :
          proc' = [proc EXCEPT ![p] =
                    IF ~ExtAccepted(ext)
                    THEN [@ EXCEPT !.w = "raised", !.form = "bare", !.ext = ext]
                    ELSE [@ EXCEPT !.w = "wrapped", !.func = f,
                                   !.ext = ext, !.max_age = max_age]]
    /\ UNCHANGED <<dirExists, files, now, gen, returned, keyVars>>

\* between two calls the program turns to another of its memoized
\* functions, or ends and a later run begins: the wrapper is gone, the
\* directory stays as it is
Rewrap(p) ==
    /\ proc[p].w \in {"wrapped", "raised"}
    /\ proc[p].pc = "idle"
    /\ proc' = [proc EXCEPT ![p] = Unwrapped]
    /\ UNCHANGED <<dirExists, files, now, gen, returned, keyVars>>

(***************************************************************************)
(* wrapper, the memoized function: one action per statement that reads or  *)
(* changes the directory.  The re-entrant call after a stale entry's       *)
(* removal runs the same statements one frame deeper; its result and its   *)
(* exceptions pass through the outer frame unchanged.                      *)
(***************************************************************************)
\* line 118: a call of the memoized function; the path is computed
Call(p) ==
    /\ proc[p].w = "wrapped"
    /\ proc[p].pc = "idle"
    /\ \E i \in 1..Len(CallInputs) :
          proc' = [proc EXCEPT ![p] =
                    [@ EXCEPT !.pc = "exists", !.op = "call", !.input = i,
                              !.contains = NoPath,
                              !.path = _cache_path(proc[p].func, CallInputs[i].args,
                                                   CallInputs[i].kwargs)
                                       \o <<".", proc[p].ext>>,
                              !.result = NoValue, !.exc = "", !.depth = 0,
                              !.seen = "", !.built = NoValue, !.age0 = -1,
                              !.invoked = 0,
                              !.ferr = FALSE, !.wrote = FALSE,
                              !.removed = FALSE, !.t0 = now, !.g0 = gen]]
    /\ UNCHANGED <<dirExists, files, now, gen, returned, keyVars>>

\* line 119: if not os.path.exists(path)
PathExists(p) ==
    /\ proc[p].pc = "exists"
    /\ proc' = [proc EXCEPT ![p] =
                 [@ EXCEPT !.pc = IF Exists(proc[p].path) THEN "getmtime" ELSE "dircheck",
                           !.seen = IF proc[p].depth = 0
                                    THEN (IF Exists(proc[p].path) THEN "present" ELSE "absent")
                                    ELSE @,
                           !.built = IF proc[p].depth = 0
                                        /\ proc[p].path \in DOMAIN returned
                                     THEN returned[proc[p].path]
                                     ELSE @]]
    /\ UNCHANGED <<dirExists, files, now, gen, returned, keyVars>>

\* line 120: if not os.path.exists(CACHE_PATH)
DirCheck(p) ==
    /\ proc[p].pc = "dircheck"
    /\ proc' = [proc EXCEPT ![p].pc = IF dirExists THEN "func" ELSE "makedirs"]
    /\ UNCHANGED <<dirExists, files, now, gen, returned, keyVars>>

\* line 121: os.makedirs(CACHE_PATH), which raises if the directory exists
Makedirs(p) ==
    /\ proc[p].pc = "makedirs"
    /\ IF dirExists
       THEN /\ proc' = [proc EXCEPT ![p] = Raised(@, "FileExistsError")]
            /\ UNCHANGED dirExists
       ELSE /\ proc' = [proc EXCEPT ![p].pc = "func"]
            /\ dirExists' = TRUE
    /\ UNCHANGED <<files, now, gen, returned, keyVars>>

\* line 122: result = func called returns
FuncReturns(p) ==
    /\ proc[p].pc = "func"
    /\ gen < MaxGen
    /\ gen' = gen + 1
    /\ \E k \in ResultKinds :
          proc' = [proc EXCEPT ![p] =
                    [@ EXCEPT !.pc = "write", !.result = Result(gen + 1, k, proc[p].func),
                              !.invoked = @ + 1]]
    /\ UNCHANGED <<dirExists, files, now, returned, keyVars>>

\* line 122 is under no try: what the function raises leaves the wrapper
OnFuncErrorGoOn(r) == [r EXCEPT !.pc = "write"]
OnFuncError(r) == Raised(r, "FuncError")

\* line 122: func called raises
FuncRaises(p) ==
    /\ proc[p].pc = "func"
    /\ gen < MaxGen
    /\ gen' = gen + 1
    /\ proc' = [proc EXCEPT ![p] =
                 OnFuncError([@ EXCEPT !.invoked = @ + 1, !.ferr = TRUE])]
    /\ UNCHANGED <<dirExists, files, now, returned, keyVars>>

\* can write_to_disk start writing obj in the format of ext: parquet goes
\* through pa.Table.from_pandas(obj) and feather through obj.to_feather,
\* which only a DataFrame passes; pickle opens the file first
Encodable(ext, obj) ==
    CASE ext = <<"parquet">> -> obj.kind = "df"
      [] ext = <<"feather">> -> obj.kind = "df"
      [] ext = <<"pkl">> -> TRUE
      [] OTHER -> FALSE

\* does the writer get to the end of the file
Dumpable(ext, obj) ==
    IF ext = <<"pkl">> THEN obj.kind # "unpicklable" ELSE TRUE

\* lines 123, 69-81: write_to_disk(result, path) up to the opening of the
\* file: an unknown extension and an object the format refuses raise before
\* any file is opened, else the file is created (a new file, numbered by
\* the invocation whose result it is opened for) or truncated
WriteOpen(p) ==
    /\ proc[p].pc = "write"
    /\ LET r == proc[p]
           ext == LastSegment(r.path)
       IN  IF ext \notin {<<"parquet">>, <<"feather">>, <<"pkl">>}
           THEN /\ proc' = [proc EXCEPT ![p] =
                             [Raised(@, "Exception: bad ext.") EXCEPT !.wrote = TRUE]]
                /\ UNCHANGED <<files, returned, keyVars>>
           ELSE IF ~Encodable(ext, r.result)
           THEN /\ proc' = [proc EXCEPT ![p] =
                             [Raised(@, "TypeError") EXCEPT !.wrote = TRUE]]
                /\ UNCHANGED <<files, returned, keyVars>>
           ELSE LET ino == IF Exists(r.path) THEN files[r.path].ino
                           ELSE r.result.gen
                IN
                /\ proc' = [proc EXCEPT ![p].pc = "dump", ![p].wrote = TRUE,
                                        ![p].fd = ino]
                /\ files' = Put(files, r.path, File(FALSE, NoArtifact, now, ino))
                /\ returned' = Drop(returned, r.path)
    /\ UNCHANGED <<dirExists, now, gen, keyVars>>

\* lines 72-79: what the finished file holds, the object in the format
\* of the path's extension
Encode(ext, obj) == [fmt |-> ext, obj |-> obj]

\* the file p's handle is on is still the file at p's path
Linked(p) ==
    Exists(proc[p].path) /\ files[proc[p].path].ino = proc[p].fd

\* another writer's bytes may be in the file p is writing: since p opened
\* (and truncated) it, another process has finished a write of it, or has
\* it open for writing now
Overlapped(p) ==
    /\ Linked(p)
    /\ \/ files[proc[p].path].complete
       \/ \E q \in Procs \ {p} : proc[q].pc = "dump" /\ proc[q].fd = proc[p].fd

\* (a writer that leaves a file already whole as it is)
ClosedKeepsFirst(p, whole) ==
    IF Linked(p) /\ files[proc[p].path].complete THEN files
    ELSE IF ~Linked(p) THEN files
    ELSE Put(files, proc[p].path,
             File(whole, IF whole THEN Encode(LastSegment(proc[p].path), proc[p].result)
                         ELSE NoArtifact, now, proc[p].fd))
\* the directory once p's writer has closed its file: the bytes written to
\* a file removed since it was opened are not at the path; else the file
\* holds the artifact, or, when the writer raised part-way or the file was
\* torn by another writer's bytes, something no reader can decode
Closed(p, whole) ==
    LET r == proc[p] IN
    IF ~Linked(p) THEN files
    ELSE Put(files, r.path,
             IF whole
             THEN File(TRUE, Encode(LastSegment(r.path), r.result), now, r.fd)
             ELSE File(FALSE, NoArtifact, now, r.fd))

\* lines 74, 76, 79: the object is written and the file closed, or the
\* writer raises part-way and leaves what it has written; each writer
\* writes from the start of the file through its own handle, so writers
\* that overlap may leave a mix of their bytes
WriteDump(p) ==
    /\ proc[p].pc = "dump"
    /\ IF ~Dumpable(LastSegment(proc[p].path), proc[p].result)
       THEN /\ proc' = [proc EXCEPT ![p] = Raised(@, "PicklingError")]
            /\ files' = Closed(p, FALSE)
       ELSE /\ proc' = [proc EXCEPT ![p].pc = "return"]
            /\ \E whole \in (IF Overlapped(p) THEN BOOLEAN ELSE {TRUE}) :
                  files' = Closed(p, whole)
    /\ UNCHANGED <<dirExists, now, gen, returned, keyVars>>

\* log.py line 44 after line 79: write_to_disk has written the file and
\* the logger call of timed, which is under no try, raises
WriteLogRaises(p) ==
    /\ proc[p].pc = "dump"
    /\ Dumpable(LastSegment(proc[p].path), proc[p].result)
    /\ proc' = [proc EXCEPT ![p] = Raised(@, "LoggingError")]
    /\ \E whole \in (IF Overlapped(p) THEN BOOLEAN ELSE {TRUE}) :
          files' = Closed(p, whole)
    /\ UNCHANGED <<dirExists, now, gen, returned, keyVars>>

\* the entry's age is below max_age
IsFreshInclusive(age, max_age) == age <= total_seconds(max_age)
IsFreshAlways(age, max_age) == TRUE
IsFreshInverted(age, max_age) == age >= total_seconds(max_age)
IsFresh(age, max_age) == age < total_seconds(max_age)

\* lines 125-126: age = time.time() - os.path.getmtime(path), compared
\* with max_age
GetMtime(p) ==
    /\ proc[p].pc = "getmtime"
    /\ LET r == proc[p] IN
       IF ~Exists(r.path)
       THEN proc' = [proc EXCEPT ![p] = Raised(@, "FileNotFoundError")]
       ELSE LET age == now - files[r.path].mtime IN
            proc' = [proc EXCEPT ![p] =
                      [@ EXCEPT !.pc = IF IsFresh(age, proc[p].max_age)
                                       THEN "read" ELSE "remove",
                                !.age0 = IF proc[p].depth = 0 THEN age ELSE @]]
    /\ UNCHANGED <<dirExists, files, now, gen, returned, keyVars>>

\* lines 85-98: read_from_disk(path), what it returns or raises; a file
\* its writer has not finished cannot be decoded
read_from_disk(path) ==
    LET ext == LastSegment(path) IN
    IF ext \notin {<<"parquet">>, <<"feather">>, <<"pkl">>}
    THEN [ok |-> FALSE, exc |-> "Exception: bad ext.", val |-> NoValue]
    ELSE IF ~Exists(path)
    THEN [ok |-> FALSE, exc |-> "FileNotFoundError", val |-> NoValue]
    ELSE IF ~files[path].complete \/ files[path].payload.fmt # ext
    THEN [ok |-> FALSE, exc |-> "CorruptFile", val |-> NoValue]
    ELSE [ok |-> TRUE, exc |-> "", val |-> files[path].payload.obj]

\* (a read that sets the file's times, as a write does)
ReadFromDiskTouches(p) ==
    /\ proc[p].pc = "read"
    /\ LET got == read_from_disk(proc[p].path) IN
       /\ proc' = [proc EXCEPT ![p] =
                    IF got.ok
                    THEN [@ EXCEPT !.pc = "return", !.result = got.val]
                    ELSE Raised(@, got.exc)]
       /\ files' = IF got.ok
                   THEN [files EXCEPT ![proc[p].path].mtime = now,
                                      ![proc[p].path].ctime = now]
                   ELSE files
    /\ UNCHANGED <<dirExists, now, gen, returned, keyVars>>
\* line 127: result = read_from_disk(path)
ReadFromDisk(p) ==
    /\ proc[p].pc = "read"
    /\ LET got == read_from_disk(proc[p].path) IN
       proc' = [proc EXCEPT ![p] =
                 IF got.ok
                 THEN [@ EXCEPT !.pc = "return", !.result = got.val]
                 ELSE Raised(@, got.exc)]
    /\ UNCHANGED <<dirExists, files, now, gen, returned, keyVars>>

\* log.py line 44 after line 98: read_from_disk has decoded the file and
\* the logger call of timed raises
ReadLogRaises(p) ==
    /\ proc[p].pc = "read"
    /\ read_from_disk(proc[p].path).ok
    /\ proc' = [proc EXCEPT ![p] = Raised(@, "LoggingError")]
    /\ UNCHANGED <<dirExists, files, now, gen, returned, keyVars>>

\* (a removal that leaves the file where it is)
RemoveLeavesFile(p) ==
    /\ proc[p].pc = "remove"
    /\ proc' = [proc EXCEPT ![p] =
                 [@ EXCEPT !.pc = "exists", !.depth = @ + 1, !.removed = TRUE]]
    /\ UNCHANGED <<dirExists, files, now, gen, returned, keyVars>>
\* lines 130-131: os.remove(path), then wrapper called again
Remove(p) ==
    /\ proc[p].pc = "remove"
    /\ LET r == proc[p] IN
       IF ~Exists(r.path)
       THEN /\ proc' = [proc EXCEPT ![p] = Raised(@, "FileNotFoundError")]
            /\ UNCHANGED <<files, returned, keyVars>>
       ELSE /\ proc' = [proc EXCEPT ![p] =
                         [@ EXCEPT !.pc = "exists", !.depth = @ + 1,
                                   !.removed = TRUE]]
            /\ files' = Drop(files, r.path)
            /\ returned' = Drop(returned, r.path)
    /\ UNCHANGED <<dirExists, now, gen, keyVars>>

\* line 132: return result; the caller has the value
Return(p) ==
    /\ proc[p].pc = "return"
    /\ proc' = [proc EXCEPT ![p] = Idle(@)]
    /\ returned' = IF proc[p].op = "call" /\ proc[p].invoked > 0
                   THEN Put(returned, proc[p].path, proc[p].result)
                   ELSE returned
    /\ UNCHANGED <<dirExists, files, now, gen, keyVars>>

\* the exception reaches the caller of the memoized function
Propagate(p) ==
    /\ proc[p].pc = "raised"
    /\ proc' = [proc EXCEPT ![p] = Idle(@)]
    /\ UNCHANGED <<dirExists, files, now, gen, returned, keyVars>>

\* is pre a prefix of s
IsPrefix(pre, s) == Len(pre) <= Len(s) /\ SubSeq(s, 1, Len(pre)) = pre

\* glob.glob(f"{CACHE_PATH}/{contains}*")
Glob(contains) ==
    { f \in DOMAIN files : IsPrefix(<<CACHE_PATH, "/">> \o contains, f) }

\* what a caller may pass to _load_most_recent_from_cache: a function (its
\* __name__ is used) or a piece of a file name
Patterns == {FuncName(f) : f \in FuncIds} \cup {<<"o", "o">>}

\* lines 21-27: _load_most_recent_from_cache(contains); max() of no file
\* raises ValueError, and among files of one ctime any may come first
LoadMostRecent(p) ==
    /\ proc[p].pc = "idle"
    /\ \E contains \in Patterns :
         LET matches == Glob(contains)
             base == [Idle(proc[p]) EXCEPT !.op = "load", !.contains = contains,
                                           !.t0 = now, !.g0 = gen]
         IN  IF matches = {}
             THEN proc' = [proc EXCEPT ![p] = Raised(base, "ValueError")]
             ELSE \E latest_file \in matches :
                    /\ \A f \in matches : files[f].ctime <= files[latest_file].ctime
                    /\ LET got == read_from_disk(latest_file) IN
                       proc' = [proc EXCEPT ![p] =
                         IF got.ok
                         THEN [base EXCEPT !.pc = "return", !.path = latest_file,
                                           !.result = got.val]
                         ELSE Raised([base EXCEPT !.path = latest_file], got.exc)]
    /\ UNCHANGED <<dirExists, files, now, gen, returned, keyVars>>

\* time passes
Tick ==
    /\ now < MaxTime
    /\ now' = now + 1
    /\ UNCHANGED <<proc, dirExists, files, gen, returned, keyVars>>

(***************************************************************************)
(* Bounds of the key derivation's inputs.                                  *)
(***************************************************************************)
MaxArgs == 2
MaxKwargs == 2

\* the values a call may pass
Vals ==
    { PyNone, PyInt(1), PyInt(12), PyStr("a"),
      PyDataFrame(1), PyObject(1),
      PyList(<<PyInt(1), PyObject(1)>>),
      PyTuple(<<PyInt(1), PyDataFrame(2)>>),
      PyIntKeyDict(<<PyInt(1)>>) }
KwVals == { PyBool(TRUE), PyObject(2) }
KwNames == SubSeq(<<"a", "b", "c", "d">>, 1, MaxKwargs)

SeqsUpTo(S, n) == UNION { [1..m -> S] : m \in 0..n }

ArgTuples == SeqsUpTo(Vals, MaxArgs)
\* keyword mappings: no name twice, in every order a call can give them
KwargMaps ==
    { kw \in SeqsUpTo([k : {KwNames[i] : i \in 1..Len(KwNames)}, v : KwVals],
                      MaxKwargs) :
        \A i, j \in 1..Len(kw) : i # j => kw[i].k # kw[j].k }

vars == <<proc, dirExists, files, now, gen, returned, kpc, kargs, kkwargs, kkey>>

KeyInit == kpc = "idle" /\ kargs = <<>> /\ kkwargs = <<>> /\ kkey = ""

\* a caller derives the key of one call
HashInput ==
    /\ kpc = "idle"
    /\ \E args \in ArgTuples, kwargs \in KwargMaps :
          /\ kargs' = args
          /\ kkwargs' = kwargs
          /\ kkey' = _hash_input(args, kwargs)
    /\ kpc' = "done"
    /\ UNCHANGED cacheVars

\* the caller is done with the key
KeyForget ==
    /\ kpc = "done"
    /\ kpc' = "idle" /\ kargs' = <<>> /\ kkwargs' = <<>> /\ kkey' = ""
    /\ UNCHANGED cacheVars

Init == CacheInit /\ KeyInit

\* a step of process p
Step(p) ==
    \/ DiskCacheBare(p)
    \/ DiskCacheParam(p)
    \/ DiskCacheApply(p)
    \/ Call(p)
    \/ PathExists(p)
    \/ DirCheck(p)
    \/ Makedirs(p)
    \/ FuncReturns(p)
    \/ FuncRaises(p)
    \/ WriteOpen(p)
    \/ WriteDump(p)
    \/ GetMtime(p)
    \/ ReadFromDisk(p)
    \/ Remove(p)
    \/ Return(p)
    \/ Propagate(p)
    \/ LoadMostRecent(p)

\* one process uses the cache directory; the logger call that ends
\* write_to_disk and read_from_disk (log.py line 44) returns
Next == Tick \/ Step(1)
Spec == Init /\ [][Next]_vars

\* the processes share the cache directory, their steps interleaved
NextConc == Tick \/ \E p \in Procs : Step(p)
SpecConc == Init /\ [][NextConc]_vars

\* one process, over the wider inputs and from one wrapper to the next
NextWide == Next \/ DiskCacheWide(1) \/ Rewrap(1)
SpecWide == Init /\ [][NextWide]_vars

\* one process whose logger may raise
NextLog == Next \/ WriteLogRaises(1) \/ ReadLogRaises(1)
SpecLog == Init /\ [][NextLog]_vars

\* the key derivation alone
KeyNext == HashInput \/ KeyForget
SpecKey == Init /\ [][KeyNext]_vars

(***************************************************************************)
(* Claims about the memoized call (one process: Spec).                     *)
(***************************************************************************)
\* process p has just finished a memoized call (the caller has not yet
\* gone on)
CallEnded(p) == proc[p].op = "call" /\ proc[p].pc \in {"return", "raised"}

\* max_age in seconds: a number and a unit letter of seconds, minutes,
\* hours or days
AgeLimit(d) ==
    IF d.unit = "S" THEN d.n
    ELSE IF d.unit = "T" THEN 60 * d.n
    ELSE IF d.unit = "H" THEN 60 * 60 * d.n
    ELSE 24 * 60 * 60 * d.n

\* the entry the call found was younger than max_age, or not
FoundFresh(p) ==
    /\ proc[p].seen = "present" /\ proc[p].age0 >= 0
    /\ proc[p].age0 < AgeLimit(proc[p].max_age)
FoundStale(p) ==
    /\ proc[p].seen = "present" /\ proc[p].age0 >= 0
    /\ proc[p].age0 >= AgeLimit(proc[p].max_age)

\* C1: in one process, a call that finds no entry and returns has invoked the
\* function exactly once and left an entry holding what it returned; a later
\* call that finds that entry younger than max_age returns, invokes the
\* function zero times, and returns the value of the entry, which is the
\* value the call that built the entry returned.
C1_MissThenHit ==
    \A p \in Procs :
        LET r == proc[p] IN
        CallEnded(p) =>
            /\ (r.pc = "return" /\ r.seen = "absent") =>
                  /\ r.invoked = 1
                  /\ Exists(r.path) /\ files[r.path].complete
                  /\ files[r.path].payload.obj = r.result
            /\ (FoundFresh(p) /\ r.built # NoValue) =>
                  /\ r.pc = "return"
                  /\ r.invoked = 0
                  /\ Exists(r.path) /\ r.result = files[r.path].payload.obj
                  /\ r.result = r.built

C1_Witness ==
    \E p \in Procs :
        /\ CallEnded(p) /\ proc[p].pc = "return"
        /\ FoundFresh(p) /\ proc[p].built # NoValue
        /\ proc[p].invoked = 0 /\ proc[p].result = proc[p].built
        /\ proc[p].result.gen = 1 /\ gen = 1

\* C2: a call that finds an entry whose age is at least max_age deletes the
\* file; if it returns, it has invoked the function exactly once, the path
\* holds a new entry modified no earlier than the call began, and the
\* result is the newly computed one (an invocation made during the call),
\* which is what the entry holds.
C2_StaleRecomputed ==
    \A p \in Procs :
        LET r == proc[p] IN
        (CallEnded(p) /\ FoundStale(p)) =>
            /\ r.removed
            /\ r.pc = "return" =>
                  /\ r.invoked = 1
                  /\ r.result.gen > r.g0
                  /\ Exists(r.path) /\ files[r.path].complete
                  /\ files[r.path].mtime >= r.t0
                  /\ files[r.path].payload.obj = r.result

C2_Witness ==
    \E p \in Procs :
        /\ CallEnded(p) /\ FoundStale(p) /\ proc[p].pc = "return"
        /\ proc[p].removed /\ proc[p].invoked = 1
        /\ proc[p].result.gen = 2
        /\ files[proc[p].path].mtime = now /\ now > 0

\* C3: if the function raises during a memoized call (on a miss or on the
\* recompute after a stale entry's removal), the call ends with that error,
\* it has not called write_to_disk, and no file is at the path.
C3_FailureIsolation ==
    \A p \in Procs :
        LET r == proc[p] IN
        r.ferr =>
            /\ r.pc = "raised" /\ r.exc = "FuncError"
            /\ ~r.wrote
            /\ ~Exists(r.path)

C3_Witness ==
    \E p \in Procs :
        /\ proc[p].ferr /\ proc[p].pc = "raised" /\ proc[p].exc = "FuncError"
        /\ proc[p].removed /\ ~Exists(proc[p].path)

\* C7: disk_cache with an ext outside {parquet, pkl, feather} raises at wrap
\* time in the bare and in the parameterised form: no partial and no wrapper
\* ever holds such an ext, only a process that holds a wrapper is ever in a
\* call, and a process whose wrapping raised has invoked nothing and has
\* left the cache directory as it was.
C7_BadExtRaisesAtWrap ==
    \A p \in Procs :
        LET r == proc[p] IN
        /\ r.w \in {"partial", "wrapped"} => r.ext \in {"parquet", "pkl", "feather"}
        /\ r.op = "call" => r.w = "wrapped"
        /\ (r.w = "raised" /\ \A q \in Procs \ {p} : proc[q].w = "unwrapped") =>
              /\ r.func = 0 /\ r.op # "call"
              /\ gen = 0 /\ ~dirExists /\ DOMAIN files = {}

C7_Witness ==
    \E p \in Procs :
        /\ proc[p].w = "raised" /\ proc[p].form = "param" /\ proc[p].ext = "txt"
        /\ gen = 0 /\ ~dirExists

(***************************************************************************)
(* Claims about processes sharing the directory (SpecConc) and about the  *)
(* accessor.                                                               *)
(***************************************************************************)
\* C8: concurrent writes to one path cause no corruption: a process that
\* reads a path while another process is writing it obtains a complete
\* artifact, never a partially written or empty file.
C8_ReadersSeeCompleteFiles ==
    [][ \A p \in Procs :
          ( /\ proc[p].pc = "read" /\ proc'[p].pc # "read"
            /\ \E q \in Procs \ {p} :
                  proc[q].pc = "dump" /\ proc[q].path = proc[p].path )
          => ( /\ Exists(proc[p].path) /\ files[proc[p].path].complete
               /\ proc'[p].pc = "return" ) ]_vars

\* the file name of a path, and the names that contain s
Basename(f) == SubSeq(f, 3, Len(f))
Contains(name, s) ==
    \E i \in 0..(Len(name) - Len(s)) : SubSeq(name, i + 1, i + Len(s)) = s
FilesContaining(s) == { f \in DOMAIN files : Contains(Basename(f), s) }

\* C9: _load_most_recent_from_cache(s) returns the decoded content of the
\* most recently modified file among the files of the cache directory whose
\* name contains s (when such files exist and the newest of them is whole).
C9_LoadsNewestContaining ==
    \A p \in Procs :
        LET r == proc[p]
            newest == { f \in FilesContaining(r.contains) :
                          \A g \in FilesContaining(r.contains) :
                              files[g].mtime <= files[f].mtime }
        IN  ( /\ r.op = "load" /\ r.pc \in {"return", "raised"}
              /\ newest # {}
              /\ \A f \in newest : files[f].complete )
            => ( /\ r.pc = "return"
                 /\ \E f \in newest : r.result = files[f].payload.obj )

\* C10: the create of the cache root on a miss is race tolerant: no call
\* fails because another process created the directory first.
C10_MakedirsRaceTolerant ==
    \A p \in Procs :
        ~(proc[p].op = "call" /\ proc[p].pc = "raised"
          /\ proc[p].exc = "FileExistsError")

(***************************************************************************)
(* Claims about the key derivation (checked under SpecKey).                *)
(***************************************************************************)
\* the orders in which the same name/value pairs can be given
Reorderings(kw) ==
    { p \in [1..Len(kw) -> {kw[i] : i \in 1..Len(kw)}] :
        \A i, j \in 1..Len(p) : i # j => p[i] # p[j] }

\* C4: keyword-argument order does not affect the key: the same name/value
\* pairs given in any other order (same positional arguments) give the key
\* the call got.
C4_KwargOrderIrrelevant ==
    kpc = "done" =>
        \A p \in Reorderings(kkwargs) : _hash_input(kargs, p) = kkey

\* "safely representable", as the specification defines it
RECURSIVE Representable(_)
Representable(d) ==
    CASE d.t \in {"none", "bool", "int", "str", "df"} -> TRUE
      [] d.t \in {"tuple", "list"} -> \A i \in 1..Len(d.v) : Representable(d.v[i])
      [] d.t = "dict" -> \A i \in 1..Len(d.v) : Representable(d.v[i].v)
      [] OTHER -> FALSE

RECURSIVE RepresentableArgs(_)
RepresentableArgs(args) ==
    IF args = <<>> THEN <<>>
    ELSE (IF Representable(Head(args)) THEN <<Head(args)>> ELSE <<>>)
         \o RepresentableArgs(Tail(args))

RECURSIVE RepresentableKwargs(_)
RepresentableKwargs(kw) ==
    IF kw = <<>> THEN <<>>
    ELSE (IF Representable(Head(kw).v) THEN <<Head(kw)>> ELSE <<>>)
         \o RepresentableKwargs(Tail(kw))

\* the key of a call all of whose arguments are representable: the digest of
\* the JSON text of {"kwargs": kwargs, "args": args}
KeyOfRepresentable(args, kwargs) ==
    sha256_hexdigest("{\"kwargs\": " \o json_dumps(PyDict(kwargs))
                     \o ", \"args\": " \o json_dumps(PyList(args)) \o "}")

\* C5: an unrepresentable argument is dropped from the key without error: the
\* key of a call is the key of the call with every unrepresentable positional
\* argument and keyword entry removed, and a call whose only argument is
\* unrepresentable has the key of the call with no arguments.
C5_UnrepresentableDropped ==
    kpc = "done" =>
        /\ kkey = KeyOfRepresentable(RepresentableArgs(kargs),
                                     RepresentableKwargs(kkwargs))
        /\ (Len(kargs) = 1 /\ ~Representable(kargs[1]) /\ kkwargs = <<>>)
              => kkey = KeyOfRepresentable(<<>>, <<>>)

C5_Witness ==
    /\ kpc = "done"
    /\ Len(kargs) = 2 /\ ~Representable(kargs[1]) /\ Representable(kargs[2])
    /\ Len(kkwargs) = 2 /\ ~Representable(kkwargs[2].v)
    /\ kkey = KeyOfRepresentable(<<kargs[2]>>, <<kkwargs[1]>>)

\* C6: positional-argument order affects the key: for representable x, y with
\* different serialisations the call (x, y) and the call (y, x) have
\* different keys.
C6_PositionalOrderMatters ==
    (kpc = "done" /\ Len(kargs) = 2
        /\ Representable(kargs[1]) /\ Representable(kargs[2])
        /\ json_dumps(kargs[1]) # json_dumps(kargs[2]))
    => _hash_input(<<kargs[2], kargs[1]>>, kkwargs) # kkey

C6_Witness ==
    /\ kpc = "done" /\ Len(kargs) = 2
    /\ kargs[1] = PyInt(1) /\ kargs[2] = PyInt(12)
    /\ kkey # _hash_input(<<PyInt(12), PyInt(1)>>, kkwargs)

(***************************************************************************)
(* Claims about freshness, over the wider inputs (SpecWide).               *)
(***************************************************************************)
\* C11: an existing entry is treated as fresh exactly when its age (the time
\* of the check minus the file's last-modified time) is strictly below
\* max_age in seconds: a call that measured a smaller age goes on to read
\* the entry and removes nothing, a call that measured an age equal to or
\* above max_age goes on to remove the entry, and with a max_age of zero no
\* call that found an entry reads it.
C11_FreshIffStrictlyYounger ==
    \A p \in Procs :
        LET r == proc[p] IN
        (r.op = "call" /\ r.age0 >= 0) =>
            /\ r.age0 < AgeLimit(r.max_age) =>
                  /\ r.pc \in {"read", "return", "raised"}
                  /\ r.depth = 0 /\ ~r.removed /\ r.invoked = 0
            /\ r.age0 >= AgeLimit(r.max_age) =>
                  (r.pc = "remove" \/ r.removed)
            /\ AgeLimit(r.max_age) = 0 =>
                  (r.pc = "remove" \/ r.removed)

C11_Witness ==
    \E p \in Procs :
        /\ proc[p].op = "call" /\ proc[p].max_age = Duration(0, "S")
        /\ proc[p].seen = "present" /\ proc[p].age0 = 0
        /\ proc[p].removed /\ proc[p].pc = "return" /\ proc[p].invoked = 1

(***************************************************************************)
(* More claims about processes sharing the directory (SpecConc).           *)
(***************************************************************************)
\* p and q have both finished, by returning, calls of one key that both
\* found no entry
BothBuilt(p, q) ==
    /\ p # q /\ proc[p].path = proc[q].path
    /\ CallEnded(p) /\ proc[p].pc = "return" /\ proc[p].seen = "absent"
    /\ CallEnded(q) /\ proc[q].pc = "return" /\ proc[q].seen = "absent"

\* C12: builders of one key do not exclude each other: two processes that
\* call with the same key while no entry exists can both invoke the function
\* and both write the path. When both have finished, each has invoked the
\* function once and returns the result it computed itself (computed during
\* its call, and not the other's), the path holds a file, and that file, if
\* whole, holds the artifact of one of the two; and at every write that
\* finishes whole the file holds the artifact of the process that wrote it,
\* so that the entry is that of whichever wrote last.
C12_NoMutualExclusion ==
    /\ [](\A p, q \in Procs :
            BothBuilt(p, q) =>
                /\ proc[p].invoked = 1 /\ proc[q].invoked = 1
                /\ proc[p].result.gen > proc[p].g0
                /\ proc[q].result.gen > proc[q].g0
                /\ proc[p].result # proc[q].result
                /\ Exists(proc[p].path)
                /\ files[proc[p].path].complete =>
                      files[proc[p].path].payload.obj
                          \in {proc[p].result, proc[q].result})
    /\ [][ \A p \in Procs :
             (proc[p].pc = "dump" /\ proc'[p].pc = "return" /\ Linked(p)) =>
                 /\ proc[p].path \in DOMAIN files'
                 /\ files'[proc[p].path].complete =>
                       files'[proc[p].path].payload.obj = proc[p].result ]_vars

C12_Witness ==
    /\ BothBuilt(1, 2)
    /\ proc[1].invoked = 1 /\ proc[2].invoked = 1
    /\ proc[1].wrote /\ proc[2].wrote
    /\ proc[1].result.gen = 2 /\ proc[2].result.gen = 1
    /\ files[proc[1].path].complete
    /\ files[proc[1].path].payload.obj = proc[2].result

\* C16: when processes call with one key while its entry is stale, no call
\* fails because another process deleted the entry between the call's
\* existence check and its age check, or between its age check and its own
\* delete: no call that found the entry present ends with the error of
\* os.path.getmtime or of os.remove on a missing file.
C16_StaleRaceTolerant ==
    \A p \in Procs :
        LET r == proc[p] IN
        ~( /\ r.op = "call" /\ r.pc = "raised" /\ r.exc = "FileNotFoundError"
           /\ r.seen = "present"
           /\ (r.age0 = -1 \/ FoundStale(p)) )
(***************************************************************************)
(* Claims about the instrumentation (SpecLog) and about what one process   *)
(* leaves in the directory.                                                *)
(***************************************************************************)
\* C13: a failure of the timing/logging instrumentation around write_to_disk
\* and read_from_disk never affects the cache: no memoized call ends with an
\* error of the instrumentation.
C13_LoggingNeverReachesCaller ==
    \A p \in Procs :
        ~(proc[p].op = "call" /\ proc[p].pc = "raised"
          /\ proc[p].exc = "LoggingError")

\* C15: a fresh hit of a wrapped function f only returns an artifact that a
\* memoized call of f itself wrote: the value a call that found a fresh
\* entry returns was computed by the function the caller wrapped.
C15_HitsAreOwnFunction ==
    \A p \in Procs :
        LET r == proc[p] IN
        (CallEnded(p) /\ r.pc = "return" /\ FoundFresh(p)) =>
            r.result.func = r.func
\* C14: in one process, whenever no write is under way every file at an
\* entry path holds a complete artifact that read_from_disk decodes, and a
\* call whose write_to_disk raised has left no file at its path.
C14_OnlyWholeEntries ==
    (\A p \in Procs : proc[p].pc # "dump") =>
        /\ \A f \in DOMAIN files : files[f].complete /\ read_from_disk(f).ok
        /\ \A p \in Procs :
              (proc[p].op = "call" /\ proc[p].pc = "raised" /\ proc[p].wrote)
                  => ~Exists(proc[p].path)

\* a call that has so far gone the way of a fresh hit: it has invoked,
\* written and removed nothing, and the age it measured, if it has measured
\* one, is below max_age
HitPath(r) ==
    /\ r.op = "call" /\ r.depth = 0
    /\ r.invoked = 0 /\ ~r.wrote /\ ~r.removed
    /\ r.pc \in {"exists", "getmtime", "read", "return", "raised"}
    /\ r.age0 >= 0 => r.age0 < AgeLimit(r.max_age)

\* C17: in one process a fresh hit leaves the cache unchanged: a call that
\* found an entry younger than max_age writes nothing, deletes nothing and
\* creates no directory, no step of it changes a file or the directory, and
\* the last-modified time of a file changes only when a write_to_disk of
\* its path is under way, never by a read.
C17_FreshHitLeavesCache ==
    /\ [](\A p \in Procs :
            (proc[p].op = "call" /\ FoundFresh(p)) =>
                /\ HitPath(proc[p])
                /\ proc[p].pc \in {"read", "return", "raised"}
                /\ Exists(proc[p].path))
    /\ [][ /\ \A p \in Procs :
                (HitPath(proc'[p]) \/ FoundFresh(p)) =>
                    (files' = files /\ dirExists' = dirExists)
           /\ \A f \in DOMAIN files \cap DOMAIN files' :
                files'[f].mtime # files[f].mtime =>
                    \E p \in Procs :
                        proc[p].pc \in {"write", "dump"} /\ proc[p].path = f
         ]_vars

C17_Witness ==
    \E p \in Procs :
        /\ CallEnded(p) /\ proc[p].pc = "return" /\ FoundFresh(p)
        /\ proc[p].age0 = 1 /\ now = 1
        /\ files[proc[p].path].mtime = 0
        /\ proc[p].result = files[proc[p].path].payload.obj

\* how far a call is from its end: the statements still ahead of each
\* position, and a frame's worth more while the wrapper has not re-entered
StepsAhead(r) ==
    (CASE r.pc = "exists" -> 10
       [] r.pc = "getmtime" -> 9
       [] r.pc \in {"read", "remove"} -> 8
       [] r.pc = "dircheck" -> 6
       [] r.pc = "makedirs" -> 5
       [] r.pc = "func" -> 4
       [] r.pc = "write" -> 3
       [] r.pc = "dump" -> 2
       [] r.pc \in {"return", "raised"} -> 1
       [] OTHER -> 0)
    + (IF r.depth = 0 THEN 20 ELSE 0)

\* C18: in one process every memoized call whose function terminates also
\* terminates: the call invokes the function at most once and re-enters the
\* wrapper at most once, the re-entrant call finds the path absent and
\* takes the miss branch (it never measures an age, reads or removes),
\* every position of a call but the wait for the function has a next step,
\* and every step of a call brings it nearer to its end.
C18_CallTerminates ==
    /\ [](\A p \in Procs :
            LET r == proc[p] IN
            r.op = "call" =>
                /\ r.invoked <= 1 /\ r.depth <= 1
                /\ r.depth = 1 =>
                      /\ r.removed
                      /\ r.pc \notin {"getmtime", "read", "remove"}
                      /\ r.pc = "exists" => ~Exists(r.path)
                /\ r.pc \notin {"idle", "func"} => ENABLED Step(p))
    /\ [][ \A p \in Procs :
             ( /\ proc[p].op = "call"
               /\ proc[p].pc \notin {"idle", "return", "raised"}
               /\ proc'[p] # proc[p] )
             => StepsAhead(proc'[p]) < StepsAhead(proc[p]) ]_vars

C18_Witness ==
    \E p \in Procs :
        /\ CallEnded(p) /\ proc[p].pc = "return"
        /\ proc[p].max_age = Duration(0, "S")
        /\ proc[p].depth = 1 /\ proc[p].removed /\ proc[p].invoked = 1
        /\ Exists(proc[p].path) /\ files[proc[p].path].complete
        /\ files[proc[p].path].payload.obj = proc[p].result
====
